---- MODULE Spec2Model ----
(***************************************************************************)
(* Model of src/adjacency_parsing/measure_adjacency_areatree.py: the run   *)
(* driver of the __main__ block (layer selection, creation and parsing of  *)
(* the output xml, reservation of layer entries, scheduling of             *)
(* process_layer sequentially or through Pool.starmap, and the loop that   *)
(* appends each layer's areas and rewrites the output file).               *)
(*                                                                         *)
(* A document is the sequence of <layer> children of <data>; an entry is   *)
(* [name, areas]; the output file is absent, torn (opened with 'wb', hence *)
(* truncated, and not yet completely written) or a complete document.      *)
(***************************************************************************)
EXTENDS Integers, Sequences, FiniteSets, TLC

VARIABLES
    file,         \* the file at params.fout: [kind, doc]
    root,         \* the in-memory tree (tree.getroot()), a sequence of entries
    pc,           \* position of the driver in __main__
    layers,       \* the list `layers` of the run
    nproc,        \* params.nproc
    thresh,       \* params.area_thresh
    task,         \* state of each submitted process_layer call
    results,      \* result slots of the map, one per submitted call
    overtaken,    \* history: a call has completed before one submitted earlier
    adjacencies,  \* the list `adjacencies` once the map has returned
    idx,          \* number of iterations of the commit loop fully executed
    error,        \* the exception that ended the run, "" when none
    runs,         \* number of runs started so far
    rerun,        \* history: the run repeats the run before it, which ended by itself
    prior,        \* history: the document parsed at the start of the run
    commitLog     \* history: per file write of the loop, the entry name and the
                  \* layer the written result was computed for

vars == <<file, root, pc, layers, nproc, thresh, task, results, overtaken,
          adjacencies, idx, error, runs, rerun, prior, commitLog>>

----------------------------------------------------------------------------
(* Bounds of the model *)

MaxLayers == 2    \* longest layer list given with -l
MaxRuns == 2      \* number of successive runs of the script on one output file

(* Program constants *)

DefaultAreaThresh == 200   \* default of --area_thresh
ProcessLayerArity == 3     \* def process_layer(l, P, params)
SeqCallArgs == 2           \* process_layer(l, P)
PoolCallArgs == 3          \* (l, P, params)

----------------------------------------------------------------------------
(* The external collaborators: the layers of the TrakEM2 file and the      *)
(* tuples (b1, b2, adj) that batch_compute_adjacency yields for a layer.   *)
(* Adjacency values are kept in tenths (35 stands for 3.5).                *)

SourceLayers == {"L1", "L2"}
UnknownLayer == "LX"
LayerNames == SourceLayers \cup {UnknownLayer}
Thresholds == {100, DefaultAreaThresh}

\* The values of --nproc: the sequential branch and the pool branch
Nprocs == {1, 2}

Boundary(n, i) == [name |-> n, index |-> i]

\* The tuples of a layer the source knows
BatchComputeAdjacency(l, t) ==
    IF l = "L1"
    THEN IF t < DefaultAreaThresh
         THEN << <<Boundary("cell1", 1), Boundary("cell2", 2), 35>>,
                 <<Boundary("cell1", 1), Boundary("cell3", 3), 10>> >>
         ELSE << <<Boundary("cell1", 1), Boundary("cell2", 2), 35>> >>
    ELSE IF t < DefaultAreaThresh
         THEN << <<Boundary("cell4", 4), Boundary("cell5", 5), 20>> >>
         ELSE << >>

\* sorted(P.layers.keys())
SortedSourceLayers == <<"L1", "L2">>

----------------------------------------------------------------------------
(* Pure helpers *)

Digit == <<"0", "1", "2", "3", "4", "5", "6", "7", "8", "9">>

RECURSIVE StrInt(_)
\* str(n) of a non-negative integer
StrInt(n) == IF n < 10 THEN Digit[n + 1]
             ELSE StrInt(n \div 10) \o Digit[(n % 10) + 1]

\* str(x) of a non-negative float with one decimal, given in tenths
StrFloat(t) == StrInt(t \div 10) \o "." \o Digit[(t % 10) + 1]

\* One <area> element of a tuple (b1, b2, _adj)
XArea(tup) ==
    [cell1     |-> tup[1].name,
     cell2     |-> tup[2].name,
     index1    |-> StrInt(tup[1].index),
     index2    |-> StrInt(tup[2].index),
     adjacency |-> StrFloat(tup[3])]

\* The <area> elements of a list of tuples, in the list's order
XAreas(adj) == [k \in 1..Len(adj) |-> XArea(adj[k])]

\* Index of the first entry of doc named l, 0 when there is none
FindLayer(doc, l) ==
    IF \E k \in 1..Len(doc) : doc[k].name = l
    THEN CHOOSE k \in 1..Len(doc) :
             /\ doc[k].name = l
             /\ \A j \in 1..(k - 1) : doc[j].name # l
    ELSE 0

\* doc without its k-th entry
RemoveAt(doc, k) == SubSeq(doc, 1, k - 1) \o SubSeq(doc, k + 1, Len(doc))

\* [l.get('name') for l in root.findall('layer')]
CurrLayers(doc) == {doc[k].name : k \in 1..Len(doc)}

\* An empty <layer name=l/> element
NewLayer(l) == [name |-> l, areas |-> << >>]

----------------------------------------------------------------------------
(* The reservation loop: for l in layers, remove the first entry named l   *)
(* when l was in the document at the start of the loop, then append an     *)
(* empty entry named l.                                                    *)

\* Variant of ReserveOne that never removes the entry already there
ReserveOneKeep(doc, curr, l) == Append(doc, NewLayer(l))

\* One iteration of `for l in layers`
ReserveOne(doc, curr, l) ==
    LET kept == IF l \in curr THEN RemoveAt(doc, FindLayer(doc, l)) ELSE doc
    IN  Append(kept, NewLayer(l))

RECURSIVE ReserveLayers(_, _, _)
\* The whole loop over the list ls; curr is computed once, before the loop
ReserveLayers(doc, curr, ls) ==
    IF ls = << >> THEN doc
    ELSE ReserveLayers(ReserveOne(doc, curr, Head(ls)), curr, Tail(ls))

----------------------------------------------------------------------------
(* process_layer and its two call sites *)

NoResult == [layer |-> "", ok |-> FALSE, adj |-> << >>]

\* process_layer(l, P, params): the tuples of layer l, or an exception when
\* the source has no such layer
ProcessLayer(l, t) ==
    IF l \in SourceLayers
    THEN [layer |-> l, ok |-> TRUE, adj |-> BatchComputeAdjacency(l, t)]
    ELSE [layer |-> l, ok |-> FALSE, adj |-> << >>]

\* A call binds its arguments only when it passes as many as process_layer
\* declares; otherwise Python raises TypeError before the body runs
CallBinds(nargs) == nargs = ProcessLayerArity

\* time1 is assigned in the pool branch only
Time1Defined == nproc # 1

\* Variant of StarmapSlot that hands results back in completion order
StarmapSlotByCompletion(i, rank) == rank

\* The position of the list returned by starmap that holds the result of the
\* i-th submitted call, which was the rank-th call to complete
StarmapSlot(i, rank) == i

\* The document with the areas of adj appended to its first entry named l
AppendAreas(doc, l, adj) ==
    LET k == FindLayer(doc, l)
    IN  [doc EXCEPT ![k].areas = @ \o XAreas(adj)]

\* The explicit lists `params.layers.split(',')` can give, up to MaxLayers names
RECURSIVE SeqsOfLen(_, _)
SeqsOfLen(S, n) ==
    IF n = 0 THEN {<< >>}
    ELSE {Append(s, x) : s \in SeqsOfLen(S, n - 1), x \in S}

ExplicitLists == UNION {SeqsOfLen(LayerNames, n) : n \in 1..MaxLayers}

\* The lists a run can process: an explicit one, or every layer of the source
LayerLists == ExplicitLists \cup {SortedSourceLayers}

Absent == [kind |-> "absent", doc |-> << >>]
Torn == [kind |-> "torn", doc |-> << >>]
Xml(doc) == [kind |-> "xml", doc |-> doc]

----------------------------------------------------------------------------
(* The shape of the state *)

IsDoc(d) ==
    \A k \in 1..Len(d) :
        /\ d[k].name \in LayerNames
        /\ \A j \in 1..Len(d[k].areas) :
               DOMAIN d[k].areas[j]
                   = {"cell1", "cell2", "index1", "index2", "adjacency"}

TypeOK ==
    /\ file.kind \in {"absent", "torn", "xml"}
    /\ IsDoc(file.doc)
    /\ IsDoc(root)
    /\ IsDoc(prior)
    /\ pc \in {"idle", "create", "create_write", "parse", "reserve",
               "reserve_open", "reserve_write", "schedule", "seq", "pool",
               "commit", "commit_open", "commit_write", "done", "crashed",
               "killed"}
    /\ layers \in LayerLists \cup {<< >>}
    /\ nproc \in Nprocs
    /\ thresh \in Thresholds
    /\ Len(task) \in {0, Len(layers)}
    /\ \A k \in 1..Len(task) : task[k] \in {"pending", "running", "done", "failed"}
    /\ Len(results) = Len(task)
    /\ overtaken \in BOOLEAN
    /\ Len(adjacencies) \in {0, Len(layers)}
    /\ idx \in 0..Len(layers)
    /\ error \in {"", "XMLSyntaxError", "TypeError", "NameError", "LayerError"}
    /\ runs \in 0..MaxRuns
    /\ rerun \in BOOLEAN
    /\ Len(commitLog) = idx

----------------------------------------------------------------------------
(* Initial state: no output file, no run started *)

Init ==
    /\ file = Absent
    /\ root = << >>
    /\ pc = "idle"
    /\ layers = << >>
    /\ nproc = 1
    /\ thresh = DefaultAreaThresh
    /\ task = << >>
    /\ results = << >>
    /\ overtaken = FALSE
    /\ adjacencies = << >>
    /\ idx = 0
    /\ error = ""
    /\ runs = 0
    /\ rerun = FALSE
    /\ prior = << >>
    /\ commitLog = << >>

RunOver == pc \in {"idle", "done", "crashed", "killed"}

\* The script is started: arguments parsed, layer list chosen, os.path.isfile
StartRun ==
    /\ RunOver
    /\ runs < MaxRuns
    /\ \E ls \in LayerLists, n \in Nprocs, t \in Thresholds :
          /\ layers' = ls
          /\ nproc' = n
          /\ thresh' = t
          /\ rerun' = (/\ pc \in {"done", "crashed"}
                       /\ ls = layers /\ n = nproc /\ t = thresh)
    /\ runs' = runs + 1
    /\ pc' = IF file.kind = "absent" THEN "create" ELSE "parse"
    /\ root' = << >>
    /\ task' = << >>
    /\ results' = << >>
    /\ overtaken' = FALSE
    /\ adjacencies' = << >>
    /\ idx' = 0
    /\ error' = ""
    /\ prior' = << >>
    /\ commitLog' = << >>
    /\ UNCHANGED file

\* with open(params.fout,'wb') of the initial create: the file now exists, empty
CreateOpen ==
    /\ pc = "create"
    /\ file' = Torn
    /\ pc' = "create_write"
    /\ UNCHANGED <<root, layers, nproc, thresh, task, results, overtaken,
                   adjacencies, idx, error, runs, rerun, prior, commitLog>>

\* fout.write(xml_out) of the initial create, and the close
CreateWrite ==
    /\ pc = "create_write"
    /\ file' = Xml(<< >>)
    /\ pc' = "parse"
    /\ UNCHANGED <<root, layers, nproc, thresh, task, results, overtaken,
                   adjacencies, idx, error, runs, rerun, prior, commitLog>>

\* tree = etree.parse(params.fout); root = tree.getroot()
ParseOutput ==
    /\ pc = "parse"
    /\ IF file.kind = "xml"
       THEN /\ root' = file.doc
            /\ prior' = file.doc
            /\ pc' = "reserve"
            /\ error' = ""
       ELSE /\ pc' = "crashed"
            /\ error' = "XMLSyntaxError"
            /\ UNCHANGED <<root, prior>>
    /\ UNCHANGED <<file, layers, nproc, thresh, task, results, overtaken,
                   adjacencies, idx, runs, rerun, commitLog>>

\* The loop "Add layers not previously analyzed" and etree.tostring
Reserve ==
    /\ pc = "reserve"
    /\ root' = ReserveLayers(root, CurrLayers(root), layers)
    /\ pc' = "reserve_open"
    /\ UNCHANGED <<file, layers, nproc, thresh, task, results, overtaken,
                   adjacencies, idx, error, runs, rerun, prior, commitLog>>

\* with open(params.fout,'wb') after the reservation
ReserveOpen ==
    /\ pc = "reserve_open"
    /\ file' = Torn
    /\ pc' = "reserve_write"
    /\ UNCHANGED <<root, layers, nproc, thresh, task, results, overtaken,
                   adjacencies, idx, error, runs, rerun, prior, commitLog>>

\* Variant of ReserveWrite that goes on to the scheduling without having
\* written the reservation
ReserveWriteDeferred ==
    /\ pc = "reserve_write"
    /\ pc' = "schedule"
    /\ UNCHANGED <<file, root, layers, nproc, thresh, task, results, overtaken,
                   adjacencies, idx, error, runs, rerun, prior, commitLog>>

\* fout.write(xml_out) after the reservation, and the close
ReserveWrite ==
    /\ pc = "reserve_write"
    /\ file' = Xml(root)
    /\ pc' = "schedule"
    /\ UNCHANGED <<root, layers, nproc, thresh, task, results, overtaken,
                   adjacencies, idx, error, runs, rerun, prior, commitLog>>

\* if params.nproc == 1: ... else: time1 = ...; with Pool(...) as pool: starmap
Schedule ==
    /\ pc = "schedule"
    /\ task' = [k \in 1..Len(layers) |-> "pending"]
    /\ results' = [k \in 1..Len(layers) |-> NoResult]
    /\ pc' = IF nproc = 1 THEN "seq" ELSE "pool"
    /\ UNCHANGED <<file, root, layers, nproc, thresh, overtaken, adjacencies,
                   idx, error, runs, rerun, prior, commitLog>>

\* Number of calls that are over
NumCompleted == Cardinality({k \in 1..Len(task) : task[k] \in {"done", "failed"}})

\* One element of [process_layer(l, P) for l in layers], or the end of the list
SeqCall ==
    /\ pc = "seq"
    /\ IF NumCompleted = Len(layers)
       THEN /\ adjacencies' = results
            /\ pc' = "commit"
            /\ UNCHANGED <<task, results, error>>
       ELSE LET i == NumCompleted + 1
                r == ProcessLayer(layers[i], thresh)
            IN  IF ~CallBinds(SeqCallArgs)
                THEN /\ pc' = "crashed"
                     /\ error' = "TypeError"
                     /\ UNCHANGED <<task, results, adjacencies>>
                ELSE IF r.ok
                THEN /\ task' = [task EXCEPT ![i] = "done"]
                     /\ results' = [results EXCEPT ![i] = r]
                     /\ UNCHANGED <<pc, error, adjacencies>>
                ELSE /\ task' = [task EXCEPT ![i] = "failed"]
                     /\ pc' = "crashed"
                     /\ error' = "LayerError"
                     /\ UNCHANGED <<results, adjacencies>>
    /\ UNCHANGED <<file, root, layers, nproc, thresh, overtaken, idx, runs, rerun, prior,
                   commitLog>>

NumRunning == Cardinality({k \in 1..Len(task) : task[k] = "running"})


\* A pool worker takes the next submitted call from the task queue
TaskStart(i) ==
    /\ pc = "pool"
    /\ task[i] = "pending"
    /\ \A j \in 1..(i - 1) : task[j] # "pending"
    /\ NumRunning < nproc
    /\ IF CallBinds(PoolCallArgs)
       THEN task' = [task EXCEPT ![i] = "running"]
       ELSE task' = [task EXCEPT ![i] = "failed"]
    /\ UNCHANGED <<file, root, pc, layers, nproc, thresh, results, overtaken,
                   adjacencies, idx, error, runs, rerun, prior, commitLog>>

\* A pool worker finishes process_layer and hands the outcome back
TaskFinish(i) ==
    /\ pc = "pool"
    /\ task[i] = "running"
    /\ LET r == ProcessLayer(layers[i], thresh)
       IN  IF r.ok
           THEN /\ task' = [task EXCEPT ![i] = "done"]
                /\ results' = [results EXCEPT ![StarmapSlot(i, NumCompleted + 1)] = r]
           ELSE /\ task' = [task EXCEPT ![i] = "failed"]
                /\ UNCHANGED results
    /\ overtaken' = (overtaken \/ \E j \in 1..(i - 1) : task[j] = "running")
    /\ UNCHANGED <<file, root, pc, layers, nproc, thresh, adjacencies, idx,
                   error, runs, rerun, prior, commitLog>>

\* pool.starmap returns once every call is over: the list of results, or the
\* exception of a failed call
StarmapReturn ==
    /\ pc = "pool"
    /\ \A k \in 1..Len(task) : task[k] \in {"done", "failed"}
    /\ IF \E k \in 1..Len(task) : task[k] = "failed"
       THEN /\ pc' = "crashed"
            /\ error' = "LayerError"
            /\ UNCHANGED adjacencies
       ELSE /\ pc' = "commit"
            /\ adjacencies' = results
            /\ UNCHANGED error
    /\ UNCHANGED <<file, root, layers, nproc, thresh, task, results, overtaken,
                   idx, runs, rerun, prior, commitLog>>

\* One iteration of `for l, adj in zip(layers, adjacencies)` up to the progress
\* print: find the entry, append the areas, print
CommitLayer ==
    /\ pc = "commit"
    /\ idx < Len(layers)
    /\ LET l == layers[idx + 1]
           adj == adjacencies[idx + 1].adj
       IN  IF FindLayer(root, l) = 0
           THEN /\ pc' = "crashed"
                /\ error' = "TypeError"
                /\ UNCHANGED root
           ELSE /\ root' = AppendAreas(root, l, adj)
                /\ IF Time1Defined
                   THEN /\ pc' = "commit_open"
                        /\ UNCHANGED error
                   ELSE /\ pc' = "crashed"
                        /\ error' = "NameError"
    /\ UNCHANGED <<file, layers, nproc, thresh, task, results, overtaken,
                   adjacencies, idx, runs, rerun, prior, commitLog>>

\* with open(params.fout,'wb') of the iteration
CommitOpen ==
    /\ pc = "commit_open"
    /\ file' = Torn
    /\ pc' = "commit_write"
    /\ UNCHANGED <<root, layers, nproc, thresh, task, results, overtaken,
                   adjacencies, idx, error, runs, rerun, prior, commitLog>>

\* fout.write(xml_out) of the iteration, and the close
CommitWrite ==
    /\ pc = "commit_write"
    /\ file' = Xml(root)
    /\ idx' = idx + 1
    /\ commitLog' = Append(commitLog, [name |-> layers[idx + 1],
                                       of |-> adjacencies[idx + 1].layer])
    /\ pc' = "commit"
    /\ UNCHANGED <<root, layers, nproc, thresh, task, results, overtaken,
                   adjacencies, error, runs, rerun, prior>>

\* The loop is exhausted: print('Finished!')
Finished ==
    /\ pc = "commit"
    /\ idx = Len(layers)
    /\ pc' = "done"
    /\ UNCHANGED <<file, root, layers, nproc, thresh, task, results, overtaken,
                   adjacencies, idx, error, runs, rerun, prior, commitLog>>

\* The process is terminated from outside at any point of a run: what it held
\* in memory is gone, the file stays as it is
Terminate ==
    /\ ~RunOver
    /\ pc' = "killed"
    /\ root' = << >>
    /\ task' = << >>
    /\ results' = << >>
    /\ overtaken' = FALSE
    /\ adjacencies' = << >>
    /\ idx' = 0
    /\ layers' = << >>
    /\ prior' = << >>
    /\ commitLog' = << >>
    /\ rerun' = FALSE
    /\ UNCHANGED <<file, nproc, thresh, error, runs>>

Next ==
    \/ StartRun
    \/ CreateOpen
    \/ CreateWrite
    \/ ParseOutput
    \/ Reserve
    \/ ReserveOpen
    \/ ReserveWrite
    \/ Schedule
    \/ SeqCall
    \/ \E i \in 1..Len(task) : TaskStart(i)
    \/ \E i \in 1..Len(task) : TaskFinish(i)
    \/ StarmapReturn
    \/ CommitLayer
    \/ CommitOpen
    \/ CommitWrite
    \/ Finished
    \/ Terminate

Spec == Init /\ [][Next]_vars

----------------------------------------------------------------------------
(* Vocabulary of the properties *)

\* Number of entries of doc named l
CountNamed(doc, l) == Cardinality({k \in 1..Len(doc) : doc[k].name = l})

\* The entries of doc whose name is in S, in the order of doc
Restrict(doc, S) == SelectSeq(doc, LAMBDA e : e.name \in S)

RECURSIVE AreasNamed(_, _)
\* The areas doc holds under the name l, over all its entries named l
AreasNamed(doc, l) ==
    IF doc = << >> THEN << >>
    ELSE (IF Head(doc).name = l THEN Head(doc).areas ELSE << >>)
         \o AreasNamed(Tail(doc), l)

\* The Layer Result of layer l under the run's parameters, as <area> elements
LayerResult(l) == XAreas(BatchComputeAdjacency(l, thresh))

\* The reservation of the run has been built in memory
Reserved == pc \in {"reserve_open", "reserve_write", "schedule", "seq", "pool",
                    "commit", "commit_open", "commit_write", "done"}
            \/ (pc = "crashed" /\ error # "XMLSyntaxError")

\* The reservation of the run has been written to the file
ReservationWritten == Reserved /\ pc \notin {"reserve_open", "reserve_write"}

\* The run ended by itself (it finished or raised) after its reservation
EndedAfterReserve == pc = "done" \/ (pc = "crashed" /\ error # "XMLSyntaxError")

\* The commit of the idx-th layer of the list has just returned
CommitReturned == pc \in {"commit", "done"} /\ idx >= 1

----------------------------------------------------------------------------
(* C1 *)

\* C1: in every state of the document, in memory and in the file, there is at
\* most one entry per layer name, and once the reservation is built there is
\* exactly one entry for each reserved name.
C1_OneEntryPerName ==
    /\ \A l \in LayerNames : CountNamed(root, l) <= 1
    /\ file.kind = "xml" => \A l \in LayerNames : CountNamed(file.doc, l) <= 1
    /\ pc = "reserve_open" =>
           \A k \in 1..Len(layers) : CountNamed(root, layers[k]) = 1

----------------------------------------------------------------------------
(* C2 *)

\* C2: the file at the output path is at every moment a complete document (or
\* not there yet): no write leaves it empty or partially written.
C2_AtomicPersist == file.kind \in {"absent", "xml"}

----------------------------------------------------------------------------
(* C3 *)

\* The layers whose call has completed with a result that is not yet in the file
CompletedNotDurable ==
    {layers[k] : k \in {j \in 1..Len(task) : task[j] = "done" /\ j > idx}}

\* C3: at every point of a run at most one completed layer result is missing
\* from the durable document.
C3_AtMostOneInFlight == Cardinality(CompletedNotDurable) <= 1

----------------------------------------------------------------------------
(* C4 *)

\* The i-th call of process_layer has started
Started(k) == task[k] \in {"running", "done", "failed"}

----------------------------------------------------------------------------
(* C5 *)

\* C5: when the commit of layer L has returned, the file holds one entry named
\* L and its areas are exactly the Layer Result of L, in order, once.
C5_CommittedEntryIsResult ==
    CommitReturned =>
        /\ file.kind = "xml"
        /\ CountNamed(file.doc, layers[idx]) = 1
        /\ AreasNamed(file.doc, layers[idx]) = LayerResult(layers[idx])

----------------------------------------------------------------------------
(* C6 *)

RECURSIVE CommitAll(_, _)
\* The document after the commit loop has appended the result of every layer of ls
CommitAll(doc, ls) ==
    IF ls = << >> THEN doc
    ELSE CommitAll(AppendAreas(doc, Head(ls),
                               BatchComputeAdjacency(Head(ls), thresh)),
                   Tail(ls))

\* The document a run leaves when every call returns and every commit is made
CompleteRunDocument ==
    CommitAll(ReserveLayers(prior, CurrLayers(prior), layers), layers)

\* Every layer of the list is known to the source: no call can fail
AllLayersKnown == \A k \in 1..Len(layers) : layers[k] \in SourceLayers

\* C6: from the same prior document, layer list and parameters, a run leaves
\* the same final document whatever nproc is: the one with every result in it.
C6_WorkerCountInvariance ==
    (EndedAfterReserve /\ AllLayersKnown) => file = Xml(CompleteRunDocument)

----------------------------------------------------------------------------
(* C7 *)

\* C7: a run with nproc = 1 over layers the source knows finishes, and the file
\* then holds for every layer of the list an entry with its Layer Result.
C7_SequentialRunCompletes ==
    (nproc = 1 /\ EndedAfterReserve /\ AllLayersKnown) =>
        /\ pc = "done"
        /\ file.kind = "xml"
        /\ \A k \in 1..Len(layers) :
               \E j \in 1..Len(file.doc) :
                   /\ file.doc[j].name = layers[k]
                   /\ file.doc[j].areas = LayerResult(layers[k])

----------------------------------------------------------------------------
(* C8 *)

RECURSIVE CommittedAreas(_, _)
\* The areas the first n iterations of the commit loop contribute to layer l
CommittedAreas(l, n) ==
    IF n = 0 THEN << >>
    ELSE CommittedAreas(l, n - 1)
         \o (IF layers[n] = l THEN LayerResult(l) ELSE << >>)

InCommitPhase == pc \in {"commit", "commit_open", "commit_write", "done"}

\* C8: with nproc > 1, whatever the completion order, the list starmap returns
\* pairs each layer with the result computed for it, the k-th write of the loop
\* is the one of the k-th layer of the list with that layer's result, and the
\* file then holds under that name what was computed for it.
C8_OwnResultInSubmissionOrder ==
    nproc > 1 =>
        /\ InCommitPhase =>
               \A k \in 1..Len(layers) : adjacencies[k].layer = layers[k]
        /\ \A k \in 1..Len(commitLog) :
               commitLog[k].name = layers[k] /\ commitLog[k].of = layers[k]
        /\ CommitReturned =>
               /\ file.kind = "xml"
               /\ Len(commitLog) = idx
               /\ AreasNamed(file.doc, layers[idx])
                      = CommittedAreas(layers[idx], idx)

\* A pool run over two layers with different results where the second call
\* completed first, and both commits are made
C8_Witness ==
    /\ pc = "done"
    /\ nproc > 1
    /\ layers = <<"L1", "L2">>
    /\ thresh < DefaultAreaThresh
    /\ overtaken
    /\ commitLog = <<[name |-> "L1", of |-> "L1"], [name |-> "L2", of |-> "L2"]>>
    /\ AreasNamed(file.doc, "L1") = LayerResult("L1")
    /\ AreasNamed(file.doc, "L2") = LayerResult("L2")

----------------------------------------------------------------------------
(* C9 *)

NamesOf(ls) == {ls[k] : k \in 1..Len(ls)}

\* C9: every complete revision of the file during a run keeps the entries of
\* the prior document whose name is not in the list as they were, in the same
\* order; and once the reservation is written, what the file holds under a name
\* of the list is what this run has committed for it so far, nothing of before.
C9_FrameAndReplace ==
    ((pc = "reserve" \/ Reserved) /\ file.kind = "xml") =>
        /\ Restrict(file.doc, LayerNames \ NamesOf(layers))
               = Restrict(prior, LayerNames \ NamesOf(layers))
        /\ ReservationWritten =>
               \A l \in NamesOf(layers) :
                   AreasNamed(file.doc, l) = CommittedAreas(l, idx)

\* The re-run scenario: L1 and L2 have results of a former run, L1 alone is run
\* again with a higher threshold; L2's entry is as before, L1's entry is new
C9_Witness ==
    /\ pc = "done"
    /\ layers = <<"L1">>
    /\ thresh = DefaultAreaThresh
    /\ Len(AreasNamed(prior, "L1")) = 2
    /\ Len(AreasNamed(prior, "L2")) = 1
    /\ Restrict(file.doc, {"L2"}) = Restrict(prior, {"L2"})
    /\ Len(AreasNamed(file.doc, "L1")) = 1

----------------------------------------------------------------------------
(* C10 *)

\* C10: when a call of process_layer fails, the file after the run holds
\* exactly one entry for the failed layer, an empty one, and every layer name
\* of the prior document is still there.
C10_FailedLayerKeepsPlaceholder ==
    (pc = "crashed" /\ \E k \in 1..Len(task) : task[k] = "failed") =>
        /\ file.kind = "xml"
        /\ \A k \in 1..Len(task) :
               task[k] = "failed" =>
                   /\ CountNamed(file.doc, layers[k]) = 1
                   /\ AreasNamed(file.doc, layers[k]) = << >>
        /\ CurrLayers(prior) \subseteq CurrLayers(file.doc)

----------------------------------------------------------------------------
(* C11 *)

\* The result of the k-th call of the list is in the file
Committed(k) == k <= idx

\* C11: a layer whose call completed with a result gets that result into the
\* file, also when the call of another layer fails: a run that ended by itself
\* has committed every completed layer.
C11_CompletedLayerIsCommitted ==
    EndedAfterReserve =>
        \A k \in 1..Len(task) : task[k] = "done" => Committed(k)

----------------------------------------------------------------------------
(* C12 *)

\* The driver is between the write of the reservation and the commit loop
Computing == pc \in {"schedule", "seq", "pool"}

\* C12: from the scheduling on, hence when the first call of process_layer
\* starts, the file is a complete document that holds for every layer of the
\* list an entry, and no area under that name.
C12_ReservationPersistedFirst ==
    Computing =>
        /\ file.kind = "xml"
        /\ \A k \in 1..Len(layers) :
               /\ CountNamed(file.doc, layers[k]) >= 1
               /\ AreasNamed(file.doc, layers[k]) = << >>

\* The first call of a pool run has started, for a layer that had areas in the
\* prior document
C12_Witness ==
    /\ pc = "pool"
    /\ task[1] = "running"
    /\ \A k \in 2..Len(task) : task[k] = "pending"
    /\ AreasNamed(prior, layers[1]) # << >>
    /\ AreasNamed(file.doc, layers[1]) = << >>

----------------------------------------------------------------------------
(* C13 *)

\* The positions of the driver at which it opens or writes the output file
DriverWrites == {"create", "create_write", "reserve_open", "reserve_write",
                 "commit_open", "commit_write"}

\* The file changes only in a step of the driver that opens or writes it; no
\* step taken while the calls of process_layer run changes it; and a write of
\* the commit loop is the write of the next layer of the list
SingleWriterSteps ==
    [][/\ file' # file => pc \in DriverWrites
       /\ pc \in {"schedule", "seq", "pool"} => file' = file
       /\ (pc = "commit_write" /\ file' # file) =>
              /\ Len(commitLog') = Len(commitLog) + 1
              /\ commitLog'[Len(commitLog')].name = layers[Len(commitLog')]]_vars

\* C13: a write of the driver finds the file as its own open left it (nobody
\* else wrote in between), the writes of the loop are at most one per layer of
\* the list, and a run that ended by itself has written the file exactly once
\* per layer of the list after the reservation.
C13_SingleWriterOncePerLayer ==
    /\ pc \in {"create_write", "reserve_write", "commit_write"} =>
           file.kind = "torn"
    /\ Len(commitLog) <= Len(layers)
    /\ EndedAfterReserve => Len(commitLog) = Len(layers)

\* The part of C13 that does not depend on the run reaching its end
C13_WritesAtMostOncePerLayer ==
    /\ pc \in {"create_write", "reserve_write", "commit_write"} =>
           file.kind = "torn"
    /\ Len(commitLog) <= Len(layers)
    /\ pc = "done" => Len(commitLog) = Len(layers)

----------------------------------------------------------------------------
(* C14 *)

RECURSIVE LastOccurrences(_)
\* The list ls with only the last occurrence of each name kept
LastOccurrences(ls) ==
    IF ls = << >> THEN << >>
    ELSE IF \E k \in 2..Len(ls) : ls[k] = Head(ls)
         THEN LastOccurrences(Tail(ls))
         ELSE <<Head(ls)>> \o LastOccurrences(Tail(ls))

\* One empty entry per name of ls, in the order of ls
Placeholders(ls) == [k \in 1..Len(ls) |-> NewLayer(ls[k])]

\* C14: after the reserve loop the document is the prior entries of the layers
\* that are not reserved, in their previous order, followed by one empty entry
\* per reserved name, in the order of the list.
C14_ReservedEntriesLast ==
    pc = "reserve_open" =>
        root = Restrict(prior, LayerNames \ NamesOf(layers))
               \o Placeholders(LastOccurrences(layers))

----------------------------------------------------------------------------
(* C15 *)

\* C15: a run that repeats the run before it (same layer list, nproc and
\* area_thresh) on the document that run left, and ends by itself, leaves the
\* file as it found it: same entries, same order, same areas, and one entry
\* for each listed name.
C15_RerunIsIdempotent ==
    (rerun /\ EndedAfterReserve) =>
        /\ file = Xml(prior)
        /\ \A k \in 1..Len(layers) : CountNamed(file.doc, layers[k]) = 1

\* The same when the document the repeated run finds holds no name twice (the
\* first run leaves such a document only of a list that repeats no name)
C15_IdempotentWithoutDuplicates ==
    (/\ rerun
     /\ EndedAfterReserve
     /\ \A n \in LayerNames : CountNamed(prior, n) <= 1) =>
        /\ file = Xml(prior)
        /\ \A k \in 1..Len(layers) : CountNamed(file.doc, layers[k]) = 1

----------------------------------------------------------------------------
(* C16 *)

\* No iteration of the commit loop has written a result of layer l yet
NotYetCommitted(l) == \A j \in 1..idx : layers[j] # l

\* C16: from the write of the reservation on, every complete revision of the
\* file holds no area under the name of a listed layer whose commit has not
\* been made, whatever the prior document held for it; so a run that ends
\* before that commit leaves the layer without its prior result.
C16_ReservedEntryEmptyUntilCommit ==
    (ReservationWritten /\ file.kind = "xml") =>
        \A k \in 1..Len(layers) :
            NotYetCommitted(layers[k]) => AreasNamed(file.doc, layers[k]) = << >>

\* A run over L1 and a layer the source does not know ends on the failed call:
\* L1 had areas before the run and has none in the file it leaves
C16_Witness ==
    /\ pc = "crashed"
    /\ error = "LayerError"
    /\ \E k \in 1..Len(layers) : layers[k] = "L1"
    /\ AreasNamed(prior, "L1") # << >>
    /\ file.kind = "xml"
    /\ CountNamed(file.doc, "L1") >= 1
    /\ AreasNamed(file.doc, "L1") = << >>

----------------------------------------------------------------------------
(* Runs on a file that earlier runs have left.  A run with the default       *)
(* nproc = 1 ends on the TypeError of its first call, right after the write   *)
(* of its reservation, so what it leaves is the reserve loop applied to what  *)
(* it found.                                                                 *)

\* The document a sequential run over ls leaves of the document d
LeftBySequentialRun(d, ls) == ReserveLayers(d, CurrLayers(d), ls)

\* The documents two successive sequential runs leave, starting with no file;
\* InitAfterRuns also admits the file that no run has created yet
LeftByEarlierRuns ==
    {LeftBySequentialRun(LeftBySequentialRun(<< >>, a), b) : a, b \in LayerLists}

InitAfterRuns ==
    /\ file \in {Absent} \cup {Xml(d) : d \in LeftByEarlierRuns}
    /\ root = << >>
    /\ pc = "idle"
    /\ layers = << >>
    /\ nproc = 1
    /\ thresh = DefaultAreaThresh
    /\ task = << >>
    /\ results = << >>
    /\ overtaken = FALSE
    /\ adjacencies = << >>
    /\ idx = 0
    /\ error = ""
    /\ runs = 0
    /\ rerun = FALSE
    /\ prior = << >>
    /\ commitLog = << >>

SpecAfterRuns == InitAfterRuns /\ [][Next]_vars

====
